---- MODULE Spec2Model ----
(***************************************************************************)
(* Model of the vesting scheduler of src/vesting_manager.py.               *)
(*                                                                         *)
(* Time is an integer count of hours (UTC) since a UTC midnight.  The      *)
(* vesting times and the refresh time of the program lie on the hour grid; *)
(* the scheduling loop polls once per time unit.  The job registry of the  *)
(* `schedule` package is modelled by the sequence `jobs`, and one call of  *)
(* schedule.run_pending() by RunPending followed by one RunJob per job of  *)
(* the sorted list of runnable jobs that run_pending builds up front.      *)
(***************************************************************************)
EXTENDS Integers, Sequences, FiniteSets, TLC

\* ------------------------------------------------------------ constants
Day == 24            \* schedule.every(24).hours ; timedelta(days=1)
Poll == 1            \* schedule.every(1).minutes and time.sleep(60): one polling slot
RefreshAt == 14      \* schedule.every().day.at("14:00", "CET")
CetOffset == 1       \* pytz.timezone("CET"), standard time: UTC+1

\* --------------------------------------------------------------- bounds
MaxTime == 64        \* horizon of the bounded specifications (hours)
MaxDur == 1          \* longest duration of one transfer call
MaxClockGap == 1     \* longest gap between the two clock reads of a registration
MaxUpdates == 1      \* provider changes per behaviour
MaxStalls == 1       \* stalls per behaviour: long sleeps, clock gaps, slow transfers
MaxFailures == 1     \* failed transfers per behaviour
ShortStall == 3      \* a late tick
LongStall == 27      \* an outage longer than one period

\* -------------------------------------------------------------- configs
\* One token entry of a vault document, as load_vesting_configs builds it.
\* destination and note are carried through to the request untouched and are
\* left out.  value is the decimal string, one character per element.
Cfg(v, a, e, ty, ch, val, cl, vt) ==
    [vault_id |-> v, asset |-> a, ecosystem |-> e, type |-> ty, chain |-> ch,
     value |-> val, cliff_days |-> cl, vesting_time |-> vt]

NoCfg == Cfg("", "", "", "", "", <<>>, 0, 0)

Bnb14   == Cfg("v1", "BNB",  "evm", "native", "bsc",      <<"0", ".", "5">>, 0, 14)
Bnb16   == Cfg("v1", "BNB",  "evm", "native", "bsc",      <<"0", ".", "5">>, 0, 16)
Usdt9   == Cfg("v1", "USDT", "evm", "erc20",  "bsc",      <<"1">>,           2, 9)
Eth13   == Cfg("v2", "ETH",  "evm", "native", "ethereum", <<"0", ".", "0">>, 1, 13)
Eth0    == Cfg("v2", "ETH",  "evm", "native", "ethereum", <<"0">>,           0, 0)
UsdtPol == Cfg("v2", "USDT", "evm", "erc20",  "polygon",  <<"1">>,           0, 13)
Matic16 == Cfg("v3", "MATIC", "evm", "native", "polygon", <<"1">>,           0, 16)
Sol16   == Cfg("v3", "SOL", "solana", "native", "solana", <<"2">>,           0, 16)

ConfigUniverse == {Bnb14, Bnb16, Usdt9, Eth13, Eth0, UsdtPol, Matic16, Sol16}

\* what one read of the provider can return: the token entries in document order
Batches ==
    { <<Bnb14>>, <<Bnb16, Usdt9>>, <<Eth13, UsdtPol>>, <<UsdtPol, Bnb16>>, <<Eth0>>,
      <<Matic16, Sol16>>, <<>> }

\* batches in which one config identity appears twice
DupBatches == { <<Bnb16, Bnb16>> }

\* the instants (UTC) at which the process may be started
StartTimes == {10, 22}

\* config identity: vault_id + asset
Key(cfg) == <<cfg.vault_id, cfg.asset>>

\* ------------------------------------------------------- decimal strings
DigitOf(c) ==
    CASE c = "0" -> 0 [] c = "1" -> 1 [] c = "2" -> 2 [] c = "3" -> 3 [] c = "4" -> 4
      [] c = "5" -> 5 [] c = "6" -> 6 [] c = "7" -> 7 [] c = "8" -> 8 [] c = "9" -> 9

RECURSIVE DigitsValue(_)
DigitsValue(s) ==
    IF s = <<>> THEN 0
    ELSE DigitsValue(SubSeq(s, 1, Len(s) - 1)) * 10 + DigitOf(s[Len(s)])

DotAt(s) ==
    IF \E i \in 1..Len(s) : s[i] = "." THEN CHOOSE i \in 1..Len(s) : s[i] = "."
    ELSE Len(s) + 1

\* Decimal(value): the integer part and the fraction digits of the string
Decimal(s) ==
    [int |-> DigitsValue(SubSeq(s, 1, DotAt(s) - 1)),
     frac |-> DigitsValue(SubSeq(s, DotAt(s) + 1, Len(s)))]

\* the amount of the config is zero as a number
AmountIsZero(cfg) == Decimal(cfg.value).int = 0 /\ Decimal(cfg.value).frac = 0

\* ---------------------------------------------------------------- timing
\* datetime.astimezone(cet): the civil reading, in CET, of a UTC instant
astimezone_cet(t) == t + CetOffset

\* datetime.astimezone(pytz.UTC): the UTC instant of a CET civil reading
astimezone_utc(c) == c - CetOffset

\* datetime.replace(hour=h, minute=0, second=0, microsecond=0) on a civil reading
replace_hour(c, h) == (c \div Day) * Day + h

compute_first_vesting_date(now1, cliff_days) == now1 + cliff_days * Day

\* first_run_utc with "<" in the place of "<=": an instant equal to now is kept
first_run_utc_strict(cfg, now1, now2) ==
    LET cliff_in_cet == replace_hour(astimezone_cet(
                            compute_first_vesting_date(now1, cfg.cliff_days)),
                                     cfg.vesting_time)
    IN  astimezone_utc(IF cliff_in_cet < astimezone_cet(now2) THEN cliff_in_cet + Day
                       ELSE cliff_in_cet)

\* first_run_utc of schedule_vesting_for_asset; now1 is the clock read by
\* compute_first_vesting_date, now2 the clock read for now_cet.
first_run_utc(cfg, now1, now2) ==
    LET first_vest_datetime_utc == compute_first_vesting_date(now1, cfg.cliff_days)
        cliff_in_cet == replace_hour(astimezone_cet(first_vest_datetime_utc),
                                     cfg.vesting_time)
        now_cet == astimezone_cet(now2)
    IN  astimezone_utc(IF cliff_in_cet <= now_cet THEN cliff_in_cet + Day
                       ELSE cliff_in_cet)

\* next_run of the job every().day.at("14:00", "CET"), scheduled or re-scheduled at t
NextRefresh(t) ==
    LET c == astimezone_cet(t)
        today == replace_hour(c, RefreshAt)
    IN  astimezone_utc(IF today > c THEN today ELSE today + Day)

\* -------------------------------------------------------------- executor
\* str.lower() on the tickers in use
Lower(a) ==
    CASE a = "BNB" -> "bnb" [] a = "USDT" -> "usdt" [] a = "ETH" -> "eth"
      [] a = "MATIC" -> "matic" [] a = "SOL" -> "sol" [] OTHER -> a

\* evm_tx_tokens: the chain/token pairs that have a contract address
TokenSupported(chain, token) ==
    \/ chain = "bsc" /\ token = "usdt"
    \/ chain = "ethereum" /\ token \in {"usdt", "pepe", "basedai"}

\* the branch execute_vest_for_asset takes
VestBranch(cfg) ==
    IF cfg.type = "native" /\ cfg.ecosystem = "evm" /\ cfg.value # <<"0">>
    THEN "transfer_native_gcp"
    ELSE IF cfg.type = "erc20" /\ cfg.ecosystem = "evm" /\ cfg.value # <<"0">>
    THEN "transfer_token_gcp"
    ELSE IF cfg.value = <<"0">> THEN "skip"
    ELSE "unsupported"

TransferFns == {"transfer_native_gcp", "transfer_token_gcp"}

\* the request body of a transfer: what the payload mapping makes of the config
Body(cfg, kind) ==
    [type |-> kind, vault_id |-> cfg.vault_id, chain |-> cfg.chain,
     token |-> IF kind = "erc20" THEN Lower(cfg.asset) ELSE "",
     value |-> Decimal(cfg.value)]

\* evm_tx_native: builds the request for whatever chain it is given
evm_tx_native(cfg) == [ok |-> TRUE, body |-> Body(cfg, "native")]

\* evm_tx_tokens: raises ValueError for a chain/token pair without contract address
evm_tx_tokens(cfg) ==
    [ok |-> TokenSupported(cfg.chain, Lower(cfg.asset)), body |-> Body(cfg, "erc20")]

\* Where one call of execute_vest_for_asset ends: in an exception raised by
\* access_secret ("secret"), in the ValueError of evm_tx_tokens ("build"), in an
\* exception raised by sign ("sign"), in the RuntimeError of broadcast_tx
\* ("post"), in the return of the response ("done"), in the zero-amount branch
\* ("skip") or in the ValueError of the last branch ("dispatch").
VestStages(cfg) ==
    CASE VestBranch(cfg) = "transfer_native_gcp" -> {"secret", "sign", "post", "done"}
      [] VestBranch(cfg) = "transfer_token_gcp" ->
            IF evm_tx_tokens(cfg).ok THEN {"secret", "sign", "post", "done"}
            ELSE {"secret", "build"}
      [] VestBranch(cfg) = "skip" -> {"skip"}
      [] OTHER -> {"dispatch"}

\* what the call has ended in: "ok" (request signed and posted), "failed"
\* (secret store, signer, network or API error raised and caught), "rejected"
\* (ValueError raised before anything is signed), "skipped" (zero amount)
ResultOf(stage) ==
    CASE stage = "done" -> "ok"
      [] stage \in {"secret", "sign", "post"} -> "failed"
      [] stage \in {"build", "dispatch"} -> "rejected"
      [] OTHER -> "skipped"

VestResults(cfg) == {ResultOf(st) : st \in VestStages(cfg)}

\* time one call can take: only a call that reaches the network takes time
VestDurations(res) == IF res \in {"ok", "failed"} THEN 0..MaxDur ELSE {0}

\* the outcomes (result, duration, stage) of one call that the bounds still allow
VestOutcomes(cfg, failed, stalled) ==
    { o \in UNION { {[res |-> ResultOf(st), dur |-> d, stage |-> st] :
                         d \in VestDurations(ResultOf(st))} : st \in VestStages(cfg) } :
        /\ o.res = "failed" => failed < MaxFailures
        /\ o.dur > 0 => stalled < MaxStalls }

\* the launcher has found first_run_utc not reached: nothing is called
NoOutcome == [res |-> "none", dur |-> 0, stage |-> "none"]

\* payload = f"{path}|{timestamp}|{request_body}"
Payload(timestamp, request_body) == [timestamp |-> timestamp, body |-> request_body]

\* a broadcast that posts the request again when the first post has failed
broadcast_tx_retry(timestamp, request_body, stage) ==
    [sent |-> IF stage = "post"
              THEN << Payload(timestamp, request_body), Payload(timestamp, request_body) >>
              ELSE << Payload(timestamp, request_body) >>,
     resp |-> IF stage = "post" THEN "error" ELSE "2xx"]

\* broadcast_tx: one requests.post of the timestamp and the body it is given; a
\* non-2xx response or a network error becomes a RuntimeError
broadcast_tx(timestamp, request_body, stage) ==
    [sent |-> << Payload(timestamp, request_body) >>,
     resp |-> IF stage = "post" THEN "error" ELSE "2xx"]

\* nothing has been signed or posted
NoIo == [signed |-> << >>, sent |-> << >>, resp |-> "none"]

\* transfer_native_gcp and transfer_token_gcp after the request is built: the
\* timestamp is read once, the payload signed, then posted
transfer_gcp(req, t, o) ==
    LET timestamp == t
        request_body == req.body
        posted == broadcast_tx(timestamp, request_body, o.stage)
    IN  IF req.ok /\ o.stage \in {"post", "done"}
        THEN [signed |-> << Payload(timestamp, request_body) >>,
              sent |-> posted.sent, resp |-> posted.resp]
        ELSE NoIo

transfer_native_gcp(cfg, t, o) == transfer_gcp(evm_tx_native(cfg), t, o)

transfer_token_gcp(cfg, t, o) == transfer_gcp(evm_tx_tokens(cfg), t, o)

\* except ValueError: a handler that lets the errors of the secret store, the
\* signer and the broadcast through
except_ValueError(stage) == stage \in {"build", "dispatch"}

\* except Exception: the stages whose exception the handler of
\* execute_vest_for_asset catches
except_Exception(stage) == stage \in {"secret", "build", "sign", "post", "dispatch"}

\* the call raises out of execute_vest_for_asset
Propagates(o) == o.res \in {"failed", "rejected"} /\ ~except_Exception(o.stage)

\* execute_vest_for_asset as a log entry
execute_vest_for_asset(cfg, jid, t, tk, o) ==
    LET io == CASE VestBranch(cfg) = "transfer_native_gcp" -> transfer_native_gcp(cfg, t, o)
                [] VestBranch(cfg) = "transfer_token_gcp" -> transfer_token_gcp(cfg, t, o)
                [] OTHER -> NoIo
    IN  [cfg |-> cfg, jid |-> jid, fn |-> VestBranch(cfg), at |-> t, tick |-> tk,
         res |-> o.res, signed |-> io.signed, sent |-> io.sent, resp |-> io.resp]

\* ------------------------------------------------------------- scheduler
VARIABLES
    now,          \* the clock (UTC hours)
    jobs,         \* schedule.jobs: the registry, in registration order
    runq,         \* run_pending: the sorted runnable jobs not yet run in this tick
    pc,           \* where main() is: start, pending, running, crashed
    calls,        \* log of the calls of execute_vest_for_asset
    tick,         \* number of calls of run_pending so far
    nextId,       \* next job identifier
    provider,     \* the Firestore collection: [batch, up]
    lastRun,      \* history: the last job run by run_pending
    lastRefresh,  \* history: the last call of refresh_vesting_schedules
    updates,      \* provider changes so far
    stalls,       \* stalls so far
    failures,     \* failed transfers so far
    setup         \* [dup, live]: fixed at start, selects the specification

vars == <<now, jobs, runq, pc, calls, tick, nextId, provider, lastRun, lastRefresh,
          updates, stalls, failures, setup>>

\* a schedule.Job.  first_run is the first_run_utc of the closure the job belongs
\* to, read1 and read2 the two clock reads of the registration that computed it.
Job(jid, kind, tag, cfg, first_run, next_run, last_run, read1, read2) ==
    [jid |-> jid, kind |-> kind, tag |-> tag, cfg |-> cfg, first_run |-> first_run,
     next_run |-> next_run, last_run |-> last_run, read1 |-> read1, read2 |-> read2]

NoRun ==
    [jid |-> 0, kind |-> "none", cfg |-> NoCfg, first_run |-> 0, due |-> 0, at |-> 0,
     done |-> 0, next_run |-> 0, fired |-> FALSE, res |-> "none", tick |-> 0,
     scheduled |-> FALSE, built |-> 0, rest |-> <<>>]

NoRefresh == [at |-> 0, done |-> 0, ok |-> TRUE, before |-> <<>>, batch |-> <<>>,
              tick |-> 0, n |-> 0]

\* schedule.clear(tag)
clear(js, tag) == SelectSeq(js, LAMBDA j : j.tag # tag)

\* schedule.cancel_job(job): no effect when the job is not in the registry
cancel_job(js, jid) == SelectSeq(js, LAMBDA j : j.jid # jid)

\* Job.run: last_run and next_run of the job object, when still registered
Reschedule(js, jid, last, next) ==
    [i \in DOMAIN js |->
        IF js[i].jid = jid THEN [js[i] EXCEPT !.last_run = last, !.next_run = next]
        ELSE js[i]]

HasJob(js, jid) == \E i \in DOMAIN js : js[i].jid = jid

\* Job.should_run
should_run(j, t) == t >= j.next_run

\* Job.__lt__: compares next_run.  The next_run of the at("14:00") job is the
\* hour mark itself; the next_run of an every(n) job is the clock at its last
\* run plus the period, which lies after the hour mark the model rounds it to.
JobBefore(a, b) ==
    \/ a.next_run < b.next_run
    \/ a.next_run = b.next_run /\ a.kind = "refresh" /\ b.kind # "refresh"

\* sorted(runnable_jobs): Python's sort is stable
RECURSIVE InsertJob(_, _)
InsertJob(j, s) ==
    IF s = <<>> THEN <<j>>
    ELSE IF JobBefore(j, Head(s)) THEN <<j>> \o s
    ELSE <<Head(s)>> \o InsertJob(j, Tail(s))

RECURSIVE SortJobs(_)
SortJobs(s) ==
    IF s = <<>> THEN <<>>
    ELSE InsertJob(s[Len(s)], SortJobs(SubSeq(s, 1, Len(s) - 1)))

\* schedule_vesting_for_asset: the launcher, checked every polling slot
schedule_vesting_for_asset(cfg, now1, now2, jid) ==
    Job(jid, "launcher", "vesting", cfg, first_run_utc(cfg, now1, now2), now2 + Poll, -1,
        now1, now2)

\* a registration loop that validates each config and is left by the exception
\* of the first config it rejects
RECURSIVE RegisterUntilRejected(_, _, _, _, _)
RegisterUntilRejected(batch, gaps, js, t, nid) ==
    IF batch = <<>> \/ "done" \notin VestStages(Head(batch))
    THEN [jobs |-> js, now |-> t, nextId |-> nid]
    ELSE RegisterUntilRejected(Tail(batch), Tail(gaps),
                               Append(js, schedule_vesting_for_asset(Head(batch), t,
                                                                     t + Head(gaps), nid)),
                               t + Head(gaps), nid + 1)

\* for cfg in configs: schedule_vesting_for_asset(cfg); gaps[i] is the time
\* that passes between the two clock reads of the i-th registration
RECURSIVE RegisterAll(_, _, _, _, _)
RegisterAll(batch, gaps, js, t, nid) ==
    IF batch = <<>> THEN [jobs |-> js, now |-> t, nextId |-> nid]
    ELSE RegisterAll(Tail(batch), Tail(gaps),
                     Append(js, schedule_vesting_for_asset(Head(batch), t,
                                                           t + Head(gaps), nid)),
                     t + Head(gaps), nid + 1)

\* a gap is a stall of the process: the gaps of one refresh take from what is
\* left of the stalls of the behaviour
Stalled(gaps) == Cardinality({i \in DOMAIN gaps : gaps[i] > 0})

Gaps(batch, left) ==
    {g \in [1..Len(batch) -> 0..MaxClockGap] : Stalled(g) <= left}

\* the state the actions work on
S == [now |-> now, jobs |-> jobs, runq |-> runq, pc |-> pc, calls |-> calls,
      tick |-> tick, nextId |-> nextId, lastRun |-> lastRun,
      lastRefresh |-> lastRefresh, stalls |-> stalls, failures |-> failures]

\* refresh_vesting_schedules: clear, load, register.  A failing load raises
\* out of the function after the clear.
refresh_vesting_schedules(s, prov, gaps) ==
    LET cleared == clear(s.jobs, "vesting")
        reg == RegisterAll(prov.batch, gaps, cleared, s.now, s.nextId)
        hist == [at |-> s.now, done |-> s.now, ok |-> prov.up,
                 before |-> SelectSeq(s.jobs, LAMBDA j : j.tag = "vesting"),
                 batch |-> prov.batch, tick |-> s.tick, n |-> s.lastRefresh.n + 1]
    IN  IF ~prov.up
        THEN [s EXCEPT !.jobs = cleared, !.pc = "crashed", !.runq = <<>>,
                       !.lastRefresh = hist]
        ELSE [s EXCEPT !.jobs = reg.jobs, !.now = reg.now, !.nextId = reg.nextId,
                       !.stalls = @ + Stalled(gaps),
                       !.lastRefresh = [hist EXCEPT !.done = reg.now]]

RunOf(s, j, t1, next, fired, res) ==
    [jid |-> j.jid, kind |-> j.kind, cfg |-> j.cfg, first_run |-> j.first_run,
     due |-> j.next_run, at |-> s.now, done |-> t1, next_run |-> next,
     fired |-> fired, res |-> res, tick |-> s.tick, scheduled |-> HasJob(s.jobs, j.jid),
     built |-> j.read1, rest |-> s.runq]

\* an exception that leaves the job leaves run_pending and main
Uncaught(s, j, o) ==
    [s EXCEPT !.now = s.now + o.dur, !.pc = "crashed", !.runq = <<>>,
              !.calls = Append(@, execute_vest_for_asset(j.cfg, j.jid, s.now, s.tick, o)),
              !.lastRun = RunOf(s, j, s.now + o.dur, j.next_run, TRUE, o.res)]

\* job_launcher, run as job j: vest and hand over to a 24-hour job once
\* first_run_utc is reached, else wait for the next polling slot
job_launcher(s, j, o) ==
    IF s.now >= j.first_run /\ Propagates(o) THEN Uncaught(s, j, o)
    ELSE IF s.now >= j.first_run
    THEN LET t1 == s.now + o.dur
             res == o.res
             every24 == Job(s.nextId, "recurring", "vesting", j.cfg, j.first_run,
                            t1 + Day, -1, j.read1, j.read2)
         IN  [s EXCEPT !.now = t1,
                       !.stalls = IF o.dur > 0 THEN @ + 1 ELSE @,
                       !.failures = IF res = "failed" THEN @ + 1 ELSE @,
                       !.calls = Append(@, execute_vest_for_asset(j.cfg, j.jid, s.now,
                                                                  s.tick, o)),
                       !.jobs = cancel_job(Append(s.jobs, every24), j.jid),
                       !.nextId = @ + 1,
                       !.lastRun = RunOf(s, j, t1, t1 + Day, TRUE, res)]
    ELSE [s EXCEPT !.jobs = Reschedule(s.jobs, j.jid, s.now, s.now + Poll),
                   !.lastRun = RunOf(s, j, s.now, s.now + Poll, FALSE, "none")]

\* the job every(24).hours.do(execute_vest_for_asset, cfg), run as job j
run_every24(s, j, o) ==
    LET t1 == s.now + o.dur
        res == o.res
    IN  IF Propagates(o) THEN Uncaught(s, j, o) ELSE
        [s EXCEPT !.now = t1,
                  !.stalls = IF o.dur > 0 THEN @ + 1 ELSE @,
                  !.failures = IF res = "failed" THEN @ + 1 ELSE @,
                  !.calls = Append(@, execute_vest_for_asset(j.cfg, j.jid, s.now,
                                                             s.tick, o)),
                  !.jobs = Reschedule(s.jobs, j.jid, t1, t1 + Day),
                  !.lastRun = RunOf(s, j, t1, t1 + Day, TRUE, res)]

\* the job every().day.at("14:00", "CET").do(refresh_vesting_schedules), run as job j
run_refresh(s, j, prov, gaps) ==
    LET r == refresh_vesting_schedules(s, prov, gaps)
    IN  IF r.pc = "crashed"
        THEN [r EXCEPT !.lastRun = RunOf(s, j, s.now, j.next_run, FALSE, "raised")]
        ELSE [r EXCEPT !.jobs = Reschedule(r.jobs, j.jid, r.now, NextRefresh(r.now)),
                       !.lastRun = RunOf(s, j, r.now, NextRefresh(r.now), FALSE, "none")]

ShiftPayloads(ps, sh) == [i \in DOMAIN ps |-> [ps[i] EXCEPT !.timestamp = @ - sh]]

\* The program depends on the clock only through differences of instants and
\* through the CET time of day, so moving every instant back by whole days
\* changes nothing it does.  Rebase does that between two ticks, renumbers the
\* jobs, keeps the calls of the last 24 hours and drops the history: it makes
\* the unbounded run of the loop a finite state graph.
Rebase(r) ==
    LET sh == (r.now \div Day) * Day
        recent == SelectSeq(r.calls, LAMBDA c : c.at >= r.now - Day)
    IN  [r EXCEPT !.now = @ - sh,
                  !.jobs = [i \in DOMAIN r.jobs |->
                               [r.jobs[i] EXCEPT !.jid = i,
                                                 !.first_run =
                                                     IF r.jobs[i].kind = "refresh"
                                                     THEN 0 ELSE @ - sh,
                                                 !.next_run = @ - sh,
                                                 !.last_run = -1,
                                                 !.read1 = 0,
                                                 !.read2 = 0]],
                  !.nextId = Len(r.jobs) + 1,
                  !.tick = 0,
                  !.calls = [i \in DOMAIN recent |->
                                [recent[i] EXCEPT !.at = @ - sh, !.tick = 0, !.jid = 0,
                                                  !.signed = ShiftPayloads(@, sh),
                                                  !.sent = ShiftPayloads(@, sh)]],
                  !.lastRun = NoRun,
                  !.lastRefresh = NoRefresh]

\* the successor state
Commit(r0) ==
    LET r == IF setup.live /\ r0.pc = "pending" THEN Rebase(r0) ELSE r0
    IN  /\ now' = r.now
        /\ jobs' = r.jobs
        /\ runq' = r.runq
        /\ pc' = r.pc
        /\ calls' = r.calls
        /\ tick' = r.tick
        /\ nextId' = r.nextId
        /\ lastRun' = r.lastRun
        /\ lastRefresh' = r.lastRefresh
        /\ stalls' = r.stalls
        /\ failures' = r.failures

ProviderStates(dup) ==
    { [batch |-> b, up |-> TRUE] : b \in Batches \cup (IF dup THEN DupBatches ELSE {}) }
        \cup { [batch |-> <<>>, up |-> FALSE] }

\* the lengths of one sleep: time.sleep(60), or longer when the process is stalled
SleepLens == {Poll} \cup (IF stalls < MaxStalls THEN {ShortStall, LongStall} ELSE {})

\* main(), up to the loop: the initial refresh, then the daily refresh job
Main ==
    /\ pc = "start"
    /\ \E gaps \in Gaps(provider.batch, MaxStalls - stalls) :
          LET r == refresh_vesting_schedules(S, provider, gaps)
          IN  Commit(IF r.pc = "crashed" THEN r
                     ELSE [r EXCEPT !.jobs = Append(@, Job(r.nextId, "refresh", "none",
                                                       NoCfg, 0, NextRefresh(r.now), -1,
                                                       r.now, r.now)),
                                    !.nextId = @ + 1,
                                    !.pc = "pending"])
    /\ UNCHANGED <<provider, updates, setup>>

\* schedule.run_pending(): the runnable jobs, sorted, before any of them runs
RunPending ==
    /\ pc = "pending"
    /\ Commit([S EXCEPT !.runq = SortJobs(SelectSeq(jobs, LAMBDA j : should_run(j, now))),
                        !.tick = @ + 1,
                        !.pc = "running"])
    /\ UNCHANGED <<provider, updates, setup>>

\* schedule._run_job for the next job of the sorted list
RunJob ==
    /\ pc = "running"
    /\ runq # <<>>
    /\ LET j == Head(runq)
           s == [S EXCEPT !.runq = Tail(runq)]
       IN  CASE j.kind = "launcher" ->
                  \E o \in (IF now >= j.first_run
                             THEN VestOutcomes(j.cfg, failures, stalls)
                             ELSE {NoOutcome}) :
                      Commit(job_launcher(s, j, o))
             [] j.kind = "recurring" ->
                  \E o \in VestOutcomes(j.cfg, failures, stalls) :
                      Commit(run_every24(s, j, o))
             [] OTHER ->
                  \E gaps \in Gaps(provider.batch, MaxStalls - stalls) :
                      Commit(run_refresh(s, j, provider, gaps))
    /\ UNCHANGED <<provider, updates, setup>>

\* time.sleep(60) after run_pending has returned
Sleep ==
    /\ pc = "running"
    /\ runq = <<>>
    /\ \E d \in SleepLens :
          /\ setup.live \/ now + d <= MaxTime
          /\ Commit([S EXCEPT !.now = now + d, !.pc = "pending",
                              !.stalls = IF d > Poll THEN @ + 1 ELSE @])
    /\ UNCHANGED <<provider, updates, setup>>

\* The collection is edited, or becomes unreadable.  The program reads it only
\* in a refresh, so the change is placed right before the tick that refreshes.
ProviderUpdate ==
    /\ pc = "pending"
    /\ updates < MaxUpdates
    /\ \E i \in DOMAIN jobs : jobs[i].kind = "refresh" /\ should_run(jobs[i], now)
    /\ \E p \in ProviderStates(setup.dup) \ {provider} : provider' = p
    /\ updates' = updates + 1
    /\ UNCHANGED <<now, jobs, runq, pc, calls, tick, nextId, lastRun, lastRefresh,
                   stalls, failures, setup>>

Init ==
    /\ now \in StartTimes
    /\ jobs = <<>>
    /\ runq = <<>>
    /\ pc = "start"
    /\ calls = <<>>
    /\ tick = 0
    /\ nextId = 1
    /\ provider \in ProviderStates(FALSE)
    /\ lastRun = NoRun
    /\ lastRefresh = NoRefresh
    /\ updates = 0
    /\ stalls = 0
    /\ failures = 0
    /\ setup = [dup |-> FALSE, live |-> FALSE]

Next == Main \/ RunPending \/ RunJob \/ Sleep \/ ProviderUpdate

Spec == Init /\ [][Next]_vars

\* ---------------------------------------------------------------- claims
IsTransfer(c) == c.fn \in TransferFns

\* the 24-hour vesting period a call falls in: the days are cut at the
\* vesting time of the config, in CET
PeriodOf(c) == (astimezone_cet(c.at) - c.cfg.vesting_time) \div Day

\* C1: for every config identity, at most one transfer execution attempt is
\* made per tick and per 24-hour vesting period.
C1_AtMostOncePerPeriod ==
    \A i, k \in DOMAIN calls :
        (i < k /\ IsTransfer(calls[i]) /\ IsTransfer(calls[k])
               /\ Key(calls[i].cfg) = Key(calls[k].cfg))
        => /\ calls[i].tick # calls[k].tick
           /\ (calls[i].cfg = calls[k].cfg => PeriodOf(calls[i]) # PeriodOf(calls[k]))

InBatch(batch, key) == \E k \in DOMAIN batch : Key(batch[k]) = key

\* the state is the one a successful refresh has left
AfterRefresh == lastRefresh.n >= 1 /\ lastRefresh.ok /\ lastRun.kind \in {"none", "refresh"}

\* C2: when a refresh runs and an identity that is already scheduled is returned
\* again, its job is left untouched: same state (launcher or recurring), same
\* first_run and same next_run.
C2_RefreshPreservesJobs ==
    AfterRefresh =>
        \A i \in DOMAIN lastRefresh.before :
            LET b == lastRefresh.before[i]
            IN  InBatch(lastRefresh.batch, Key(b.cfg)) =>
                    \E m \in DOMAIN jobs :
                        /\ Key(jobs[m].cfg) = Key(b.cfg)
                        /\ jobs[m].kind = b.kind
                        /\ jobs[m].first_run = b.first_run
                        /\ jobs[m].next_run = b.next_run

\* C4: a config whose amount is zero, however it is written, never reaches
\* transfer_native_gcp or transfer_token_gcp.
C4_ZeroAmountNeverTransfers ==
    \A i \in DOMAIN calls : AmountIsZero(calls[i].cfg) => ~IsTransfer(calls[i])

\* C5: the first run computed by a registration lies strictly after the clock
\* of that registration, at both of its reads.
C5_FirstRunInFuture ==
    \A i \in DOMAIN jobs :
        jobs[i].kind = "launcher" =>
            jobs[i].first_run > jobs[i].read1 /\ jobs[i].first_run > jobs[i].read2

\* C6: the next run of a recurring job is first_run + k * 24h for some k >= 1.
C6_FixedPeriod ==
    \A i \in DOMAIN jobs :
        jobs[i].kind = "recurring" =>
            /\ jobs[i].next_run > jobs[i].first_run
            /\ (jobs[i].next_run - jobs[i].first_run) % Day = 0

\* the smallest f + k * 24h that is greater than t, for t >= f
NextOnGrid(f, t) == f + ((t - f) \div Day + 1) * Day

CallsOf(jid, tk) == {i \in DOMAIN calls : calls[i].jid = jid /\ calls[i].tick = tk}

\* C7: a recurring job that has missed one period or more is run once by the
\* next tick and its next run becomes the smallest first_run + k * 24h after now.
C7_CatchUp ==
    (lastRun.kind = "recurring" /\ lastRun.at >= lastRun.due + Day) =>
        /\ Cardinality(CallsOf(lastRun.jid, lastRun.tick)) <= 1
        /\ lastRun.next_run = NextOnGrid(lastRun.first_run, lastRun.at)

\* C8: when the load fails in a refresh run by the loop, the jobs that existed
\* before the refresh are still scheduled and the loop keeps running.
C8_FailedRefreshKeepsSchedule ==
    (lastRefresh.tick >= 1 /\ ~lastRefresh.ok) =>
        /\ pc # "crashed"
        /\ \A i \in DOMAIN lastRefresh.before : HasJob(jobs, lastRefresh.before[i].jid)

\* C9: registering one config identity twice yields one job for it: after a
\* refresh every identity of the batch has exactly one job.
C9_IdempotentRegistration ==
    AfterRefresh =>
        \A k \in DOMAIN lastRefresh.batch :
            Cardinality({m \in DOMAIN jobs :
                            Key(jobs[m].cfg) = Key(lastRefresh.batch[k])}) = 1

\* C10: when the transfer fails as the launcher fires, the job becomes recurring
\* with next_run = first_run + 24h, the launcher is cancelled and nothing is
\* retried before.
C10_FailureOnFirstRun ==
    (lastRun.kind = "launcher" /\ lastRun.fired /\ lastRun.res = "failed") =>
        /\ ~HasJob(jobs, lastRun.jid)
        /\ Cardinality(CallsOf(lastRun.jid, lastRun.tick)) = 1
        /\ lastRun.next_run = lastRun.first_run + Day

\* C11: an error raised in the transfer of one job stays inside
\* execute_vest_for_asset: the loop is not stopped by it and the other jobs that
\* are due in the tick are still run in that tick; only a refresh can stop the loop.
C11_ErrorIsolation ==
    /\ (lastRun.res \in {"failed", "rejected"} /\ lastRun.tick = tick) =>
            /\ pc \in {"running", "pending"}
            /\ pc = "running" => runq = lastRun.rest
    /\ pc = "crashed" => lastRun.kind \in {"none", "refresh"}

\* a transfer has failed and a later job of the same tick has made its transfer
C11_Witness ==
    \E i, k \in DOMAIN calls :
        /\ i < k
        /\ calls[i].tick = calls[k].tick
        /\ calls[i].res \in {"failed", "rejected"}
        /\ calls[k].res = "ok"
        /\ pc = "pending"

\* the chains the payload mappings of the program name
SupportedChains == {"bsc", "ethereum"}

\* the ecosystem/type/chain/token combination of the config has a payload mapping
HasMapping(cfg) ==
    /\ cfg.ecosystem = "evm"
    /\ \/ cfg.type = "native" /\ cfg.chain \in SupportedChains
       \/ cfg.type = "erc20" /\ TokenSupported(cfg.chain, Lower(cfg.asset))

\* C12: for a config whose combination has no payload mapping, no payload is
\* signed and nothing is broadcast when its job fires.
C12_NoTransferWithoutMapping ==
    \A i \in DOMAIN calls :
        ~HasMapping(calls[i].cfg) => calls[i].signed = << >> /\ calls[i].sent = << >>

\* C13: no transfer execution for a config happens earlier than cliff_days
\* days after the moment its schedule was built.
C13_CliffIsMinimumDelay ==
    (lastRun.kind \in {"launcher", "recurring"} /\ lastRun.fired) =>
        lastRun.at >= lastRun.built + lastRun.cfg.cliff_days * Day

\* vesting_time on the CET civil date of t + cliff_days days, as a UTC instant,
\* moved 24 hours later if and only if it is at or before t
ExpectedFirstRun(cfg, t) ==
    LET date == (t + cfg.cliff_days * Day + CetOffset) \div Day
        instant == date * Day + cfg.vesting_time - CetOffset
    IN  IF instant <= t THEN instant + Day ELSE instant

C15_UnsupportedSibling ==
    /\ AfterRefresh =>
           \A k \in DOMAIN lastRefresh.batch :
               HasMapping(lastRefresh.batch[k]) =>
                   Cardinality({m \in DOMAIN jobs :
                                   /\ jobs[m].kind = "launcher"
                                   /\ jobs[m].tag = "vesting"
                                   /\ jobs[m].cfg = lastRefresh.batch[k]}) = 1
    /\ (lastRun.kind = "launcher" /\ HasMapping(lastRun.cfg)
            /\ lastRun.at >= lastRun.first_run) =>
           lastRun.fired /\ lastRun.res \in {"ok", "failed", "skipped"}

\* the batch holds an unsupported config and a valid one, and the valid one
\* has been transferred after the unsupported one was rejected
C15_Witness ==
    \E k, m \in DOMAIN lastRefresh.batch :
        /\ ~HasMapping(lastRefresh.batch[k])
        /\ HasMapping(lastRefresh.batch[m])
        /\ \E i, n \in DOMAIN calls :
               /\ calls[i].cfg = lastRefresh.batch[k] /\ calls[i].res = "rejected"
               /\ calls[n].cfg = lastRefresh.batch[m] /\ calls[n].res = "ok"
               /\ calls[n].sent # << >>

\* C16: the refresh changes the job set between ticks only: no vesting job is
\* run in a tick after a refresh of that tick has removed it from the job set,
\* so no removed launcher adds a job afterwards.
C16_ReconcileBetweenTicks ==
    lastRun.kind \in {"launcher", "recurring"} => lastRun.scheduled

\* C17: between two ticks every config identity has at most one vesting job,
\* a launcher or a recurring job.
C17_OneJobPerIdentity ==
    pc = "pending" =>
        \A i, k \in DOMAIN jobs :
            (jobs[i].tag = "vesting" /\ jobs[k].tag = "vesting"
                /\ Key(jobs[i].cfg) = Key(jobs[k].cfg)) => i = k

\* a launcher makes no transfer before its first run
LauncherWaits ==
    (lastRun.kind = "launcher" /\ lastRun.fired) => lastRun.at >= lastRun.first_run

\* a launcher that has fired has made one call, has registered one 24-hour job
\* and is no longer scheduled
LauncherHandsOver ==
    (lastRun.kind = "launcher" /\ lastRun.fired) =>
        /\ ~HasJob(jobs, lastRun.jid)
        /\ Cardinality({i \in DOMAIN calls : calls[i].jid = lastRun.jid}) = 1
        /\ Cardinality({m \in DOMAIN jobs :
                           /\ jobs[m].kind = "recurring"
                           /\ jobs[m].jid = nextId - 1
                           /\ jobs[m].cfg = lastRun.cfg}) = 1

\* a tick that starts at or after the first run of a launcher runs the launcher
LauncherFiresOnFirstDueTick ==
    (pc = "running" /\ lastRun.tick < tick) =>
        \A i \in DOMAIN jobs :
            (jobs[i].kind = "launcher" /\ now >= jobs[i].first_run) =>
                \E k \in DOMAIN runq : runq[k].jid = jobs[i].jid

\* C18: a launcher makes no transfer at a tick before first_run; at the first
\* tick with now >= first_run it makes the transfer exactly once, registers one
\* 24-hour job and is cancelled, and never executes again.
C18_JobLifecycle == LauncherWaits /\ LauncherHandsOver /\ LauncherFiresOnFirstDueTick

\* the vesting jobs are one launcher per config of the batch, in its order
LaunchersOf(js, batch) ==
    LET vs == SelectSeq(js, LAMBDA j : j.tag = "vesting")
    IN  /\ Len(vs) = Len(batch)
        /\ \A k \in DOMAIN batch : vs[k].kind = "launcher" /\ vs[k].cfg = batch[k]

\* C19: after a successful refresh the vesting jobs are exactly one launcher
\* per returned config; an identity that was not returned has no job from then
\* on and no transfer is executed for it, in that tick or later.
C19_RemovalOnRefresh ==
    /\ AfterRefresh => LaunchersOf(jobs, lastRefresh.batch)
    /\ (lastRefresh.n >= 1 /\ lastRefresh.ok) =>
           /\ \A m \in DOMAIN jobs :
                  jobs[m].tag = "vesting" => InBatch(lastRefresh.batch, Key(jobs[m].cfg))
           /\ (lastRun.kind \in {"launcher", "recurring"} /\ lastRun.res \in {"ok", "failed"})
                  => InBatch(lastRefresh.batch, Key(lastRun.cfg))

\* C20: one execution of a transfer function posts at most once; a post that
\* ends in a non-2xx response or a network error makes the execution fail and
\* is not repeated; what is posted is the body and the timestamp that were signed.
C20_SingleBroadcast ==
    \A i \in DOMAIN calls :
        /\ Len(calls[i].sent) <= 1
        /\ calls[i].sent # << >> => calls[i].sent = calls[i].signed
        /\ calls[i].resp = "error" => calls[i].res = "failed"
        /\ calls[i].res = "ok" => calls[i].resp = "2xx" /\ Len(calls[i].sent) = 1
        /\ calls[i].sent # << >> => IsTransfer(calls[i])

\* one post has been answered with an error and another with a 2xx response
C20_Witness ==
    \E i, k \in DOMAIN calls :
        /\ calls[i].resp = "error" /\ Len(calls[i].sent) = 1
        /\ calls[k].resp = "2xx" /\ calls[k].fn = "transfer_token_gcp"

\* ------------------------------------------------- duplicate identities
InitDup ==
    /\ now \in StartTimes
    /\ jobs = <<>>
    /\ runq = <<>>
    /\ pc = "start"
    /\ calls = <<>>
    /\ tick = 0
    /\ nextId = 1
    /\ provider \in ProviderStates(TRUE)
    /\ lastRun = NoRun
    /\ lastRefresh = NoRefresh
    /\ updates = 0
    /\ stalls = 0
    /\ failures = 0
    /\ setup = [dup |-> TRUE, live |-> FALSE]

SpecDup == InitDup /\ [][Next]_vars

\* ---------------------------------------------------- the loop, unbounded
InitLive ==
    /\ now \in StartTimes
    /\ jobs = <<>>
    /\ runq = <<>>
    /\ pc = "start"
    /\ calls = <<>>
    /\ tick = 0
    /\ nextId = 1
    /\ provider \in { [batch |-> b, up |-> TRUE] : b \in Batches }
    /\ lastRun = NoRun
    /\ lastRefresh = NoRefresh
    /\ updates = 0
    /\ stalls = MaxStalls        \* no stall and no failed transfer: the loop
    /\ failures = MaxFailures    \* runs as the claim assumes
    /\ setup = [dup |-> FALSE, live |-> TRUE]

\* the provider keeps returning the same configs
NextLive == Main \/ RunPending \/ RunJob \/ Sleep

\* main() runs on one thread and never blocks for ever: the loop keeps going
LiveSpec == InitLive /\ [][NextLive]_vars /\ WF_vars(NextLive)

\* a config whose transfer the executor supports, with an amount that is not zero
Eligible(cfg) ==
    /\ ~AmountIsZero(cfg)
    /\ \/ VestBranch(cfg) = "transfer_native_gcp"
       \/ VestBranch(cfg) = "transfer_token_gcp" /\ TokenSupported(cfg.chain, Lower(cfg.asset))

Configured(cfg) == \E k \in DOMAIN provider.batch : provider.batch[k] = cfg

Vested(cfg) == \E i \in DOMAIN calls : calls[i].cfg = cfg /\ IsTransfer(calls[i])

\* C3: every configured pair with a supported type and a non-zero amount is
\* vested: a transfer for it is executed, and again and again after that.
C3_EveryConfigVests ==
    \A cfg \in ConfigUniverse :
        (Eligible(cfg) /\ Configured(cfg)) => []<>Vested(cfg)

====
